---------------------------- MODULE Spec2Model ----------------------------
(***************************************************************************)
(* Model of thesanjeevsharma/downtime-detector.                            *)
(*                                                                         *)
(*  - the status evaluator, the route handler POST with getValueByPath     *)
(*    (src/unnamed/part_000), checked under Spec;                          *)
(*  - the dashboard's vendor list with addVendor, removeVendor,            *)
(*    checkVendorStatus, updateVendorStatus and refreshAllStatuses         *)
(*    (src/app/page.tsx), checked under SpecUI.                            *)
(*                                                                         *)
(* JavaScript strings that the code converts (toLowerCase, trim, split,    *)
(* String(..)) are sequences of one-character strings, so the conversions  *)
(* are computed character by character.                                    *)
(***************************************************************************)
EXTENDS Integers, Sequences, FiniteSets, TLC

(***************************************************************************)
(* Bounds of the model.                                                    *)
(***************************************************************************)
\* nesting depth of the JSON documents a remote API may answer with
MaxDepth == 2
\* number of elements of the HTML documents a remote page may answer with
MaxElems == 2
\* number of vendors the operator adds in one behaviour
MaxVendors == 2
\* number of "Refresh All" runs in one behaviour
MaxRefreshes == 1

(***************************************************************************)
(* JavaScript values.  A value is a record tagged with its typeof, its     *)
(* content in a field of its own per type.  An object is the sequence of   *)
(* its <<key, value>> fields, in insertion order; keys are strings         *)
(* (character sequences).                                                  *)
(***************************************************************************)
Undefined == [t |-> "undefined"]
Null      == [t |-> "null"]
Bool(b)   == [t |-> "boolean", b |-> b]
Num(n)    == [t |-> "number", n |-> n]
Str(s)    == [t |-> "string", s |-> s]
Obj(f)    == [t |-> "object", f |-> f]

EmptyObject == Obj(<<>>)

\* ToBoolean: what `x ? a : b`, `x || y` and `if (x)` test.
Truthy(x) ==
    CASE x.t = "undefined" -> FALSE
      [] x.t = "null"      -> FALSE
      [] x.t = "boolean"   -> x.b
      [] x.t = "number"    -> x.n # 0
      [] x.t = "string"    -> x.s # <<>>
      [] OTHER             -> TRUE

\* x || y
Or(x, y) == IF Truthy(x) THEN x ELSE y

Upper == <<"A","B","C","D","E","F","G","H","I","J","K","L","M",
           "N","O","P","Q","R","S","T","U","V","W","X","Y","Z">>
Lower == <<"a","b","c","d","e","f","g","h","i","j","k","l","m",
           "n","o","p","q","r","s","t","u","v","w","x","y","z">>

ToLowerChar(c) ==
    IF \E i \in 1..Len(Upper) : Upper[i] = c
    THEN Lower[CHOOSE i \in 1..Len(Upper) : Upper[i] = c]
    ELSE c

\* String.prototype.toLowerCase
toLowerCase(s) == [i \in 1..Len(s) |-> ToLowerChar(s[i])]

WhiteSpace == {" ", "\t", "\n"}

RECURSIVE TrimStart(_)
TrimStart(s) ==
    IF s # <<>> /\ Head(s) \in WhiteSpace THEN TrimStart(Tail(s)) ELSE s

RECURSIVE TrimEnd(_)
TrimEnd(s) ==
    IF s # <<>> /\ s[Len(s)] \in WhiteSpace
    THEN TrimEnd(SubSeq(s, 1, Len(s) - 1))
    ELSE s

\* String.prototype.trim
trim(s) == TrimEnd(TrimStart(s))

RECURSIVE SplitFrom(_, _)
SplitFrom(s, cur) ==
    IF s = <<>> THEN <<cur>>
    ELSE IF Head(s) = "." THEN <<cur>> \o SplitFrom(Tail(s), <<>>)
    ELSE SplitFrom(Tail(s), Append(cur, Head(s)))

\* split as it would be if "" split into no segment at all
splitDroppingEmpty(s) == IF s = <<>> THEN <<>> ELSE SplitFrom(s, <<>>)

\* path.split("."): "" splits into the one segment "".
split(s) == SplitFrom(s, <<>>)

Digits == <<"0","1","2","3","4","5","6","7","8","9">>

\* String(value) for the values of the model (numbers are 0..9).
String(x) ==
    CASE x.t = "undefined" -> <<"u","n","d","e","f","i","n","e","d">>
      [] x.t = "null"      -> <<"n","u","l","l">>
      [] x.t = "boolean"   -> IF x.b THEN <<"t","r","u","e">>
                                     ELSE <<"f","a","l","s","e">>
      [] x.t = "number"    -> <<Digits[x.n + 1]>>
      [] x.t = "string"    -> x.s
      [] OTHER             -> <<"[","o","b","j","e","c","t"," ",
                                "O","b","j","e","c","t","]">>

\* obj[key] where obj is an object of the model; undefined when absent.
HasKey(f, key) == \E i \in 1..Len(f) : f[i][1] = key
Field(f, key)  == f[CHOOSE i \in 1..Len(f) : f[i][1] = key][2]

\* prev?.[curr]: undefined for null and undefined, and for the primitives
\* of the model, none of which has a property named by a key of the model.
Get(prev, curr) ==
    IF prev.t = "object" /\ HasKey(prev.f, curr)
    THEN Field(prev.f, curr)
    ELSE Undefined

\* the reducer of getValueByPath: (prev?.[curr]) || {}
ReduceStep(prev, curr) == Or(Get(prev, curr), EmptyObject)

RECURSIVE Reduce(_, _)
Reduce(segs, acc) ==
    IF segs = <<>> THEN acc ELSE Reduce(Tail(segs), ReduceStep(acc, Head(segs)))

\* getValueByPath(obj, path) of the route handler
getValueByPath(obj, path) == Reduce(split(path), obj)


(***************************************************************************)
(* The remote resource and what fetch(url) makes of it.                    *)
(***************************************************************************)
\* HTTP status codes a remote may answer with (after redirects)
Statuses == {200, 204, 404, 500}

\* response.ok
ResponseOk(status) == status >= 200 /\ status <= 299

\* `${response.status}`
StatusText(status) ==
    CASE status = 200 -> "200" [] status = 204 -> "204"
      [] status = 404 -> "404" [] OTHER -> "500"

\* response.headers.get("content-type"): null or a string, kept as the
\* sequence of its parts so that includes("application/json") is a search.
ContentTypes ==
    { Null, Str(<<>>), Str(<<"text/plain">>), Str(<<"application/json">>),
      Str(<<"application/json", "; charset=utf-8">>) }

\* contentType?.includes("application/json")
includes(contentType, part) ==
    /\ contentType.t = "string"
    /\ \E i \in 1..Len(contentType.s) : contentType.s[i] = part

\* what response.json() throws on a body that is not JSON
ParseFailure == [t |-> "SyntaxError"]

Leaves ==
    { Null, Bool(FALSE), Bool(TRUE), Num(0), Num(1), Str(<<>>),
      Str(<<"U", "p">>) }

Keys == { <<>>, <<"a">>, <<"b">> }

RECURSIVE JsonOfDepth(_)
JsonOfDepth(d) ==
    IF d = 0 THEN Leaves
    ELSE LET sub == JsonOfDepth(d - 1)
         IN  Leaves \cup {EmptyObject}
               \cup { Obj(<< <<k, v>> >>) : k \in Keys, v \in sub }

\* the parsed bodies: nested one-field objects and flat two-field objects
\* (arrays and keys naming inherited properties are not among them)
JsonDocs ==
    JsonOfDepth(MaxDepth)
      \cup { Obj(<< <<(<<"a">>), v>>, <<(<<"b">>), w>> >>) : v, w \in Leaves }

\* An HTML document is the sequence of its elements in document order;
\* an element has a tag, an id and its textContent.
Texts ==
    { <<>>, <<" ">>, <<"U", "p">>, <<" ", "u", "p", "\n">>, <<"n", "o">> }

Elements == [tag : {"p"}, id : {"s", "t"}, text : Texts]

RECURSIVE DomsOfLen(_)
DomsOfLen(n) ==
    IF n = 0 THEN { <<>> }
    ELSE LET sub == DomsOfLen(n - 1)
         IN  sub \cup { Append(d, e) : d \in { x \in sub : Len(x) = n - 1 },
                                       e \in Elements }

Doms == DomsOfLen(MaxElems)

NameChars == { Lower[i] : i \in 1..Len(Lower) }

\* the selectors of the model: "#x" (id) and "x" (type); every other
\* string, the empty one included, is not a valid selector
SelectorValid(sel) ==
    \/ Len(sel) = 2 /\ sel[1] = "#" /\ sel[2] \in NameChars
    \/ Len(sel) = 1 /\ sel[1] \in NameChars

Matches(el, sel) ==
    IF sel[1] = "#" THEN el.id = sel[2] ELSE el.tag = sel[1]

Thrown(message, isError) ==
    [t |-> "throw", message |-> message, isError |-> isError]

ElementValue(el) == [t |-> "element", el |-> el]

\* querySelector as it would be if an invalid selector matched nothing
querySelectorLenient(dom, sel, domIsError) ==
    IF SelectorValid(sel) /\ \E i \in 1..Len(dom) : Matches(dom[i], sel)
    THEN ElementValue(dom[CHOOSE i \in 1..Len(dom) :
                            /\ Matches(dom[i], sel)
                            /\ \A j \in 1..(i - 1) : ~Matches(dom[j], sel)])
    ELSE Null

\* document.querySelector(selector): throws a SyntaxError DOMException on an
\* invalid selector, else the first matching element or null.  Whether the
\* DOMException of the document's realm is `instanceof Error` in the
\* handler's realm is left open (domIsError).
querySelector(dom, sel, domIsError) ==
    IF ~SelectorValid(sel)
    THEN Thrown(<<"'", "' is not a valid selector">>, domIsError)
    ELSE IF \E i \in 1..Len(dom) : Matches(dom[i], sel)
    THEN ElementValue(dom[CHOOSE i \in 1..Len(dom) :
                            /\ Matches(dom[i], sel)
                            /\ \A j \in 1..(i - 1) : ~Matches(dom[j], sel)])
    ELSE Null

NoJson == ParseFailure
NoDom  == <<>>

Remote(rejects, status, contentType, json, dom) ==
    [rejects |-> rejects, status |-> status, contentType |-> contentType,
     json |-> json, dom |-> dom]

\* what a fetch of an API url can meet
ApiRemotes ==
    { Remote(TRUE, 200, Null, NoJson, NoDom) }
      \cup { Remote(FALSE, s, Str(<<"text/plain">>), NoJson, NoDom) :
               s \in { x \in Statuses : ~ResponseOk(x) } }
      \cup { Remote(FALSE, 200, c, NoJson, NoDom) :
               c \in { x \in ContentTypes : ~includes(x, "application/json") } }
      \cup { Remote(FALSE, 200, c, j, NoDom) :
               c \in { x \in ContentTypes : includes(x, "application/json") },
               j \in JsonDocs \cup {ParseFailure} }

\* what a fetch of a page url can meet
PageRemotes ==
    { Remote(TRUE, 200, Null, NoJson, NoDom) }
      \cup { Remote(FALSE, s, Str(<<"text/plain">>), NoJson, NoDom) :
               s \in { x \in Statuses : ~ResponseOk(x) } }
      \cup { Remote(FALSE, 200, Str(<<"text/plain">>), NoJson, d) : d \in Doms }

(***************************************************************************)
(* The request envelope, CheckStatusRequest.                               *)
(***************************************************************************)
Paths ==
    { Undefined, Str(<<>>), Str(<<"a">>), Str(<<"b">>), Str(<<"a", ".", "b">>),
      Str(<<"a", ".", "a">>), Str(<<"a", ".">>), Str(<<".">>) }

Selectors ==
    { Undefined, Str(<<>>), Str(<<"#", "s">>), Str(<<"#", "t">>),
      Str(<<"p">>), Str(<<"b">>), Str(<<"#">>) }

ExpectedValues ==
    { Undefined, Str(<<>>), Str(<<"f", "a", "l", "s", "e">>), Str(<<"0">>),
      Str(<<"u", "p">>), Str(<<"U", "P">>), Str(<<" ", "u", "p">>),
      Str(<<"[","o","b","j","e","c","t"," ","O","b","j","e","c","t","]">>) }

\* kind: the body is not JSON ("unparseable"), is the JSON null ("null"),
\* or is an object; type "ftp" stands for every type other than api and page
Envelope(kind, type, path, selector, expectedValue) ==
    [kind |-> kind, type |-> type, path |-> path, selector |-> selector,
     expectedValue |-> expectedValue]

BadEnvelopes ==
    { Envelope(k, "api", Undefined, Undefined, Undefined) :
        k \in {"unparseable", "null"} }

ApiEnvelopes ==
    { Envelope("object", "api", p, s, e) :
        p \in Paths, s \in {Undefined, Str(<<"#", "s">>)}, e \in ExpectedValues }

PageEnvelopes ==
    { Envelope("object", "page", p, s, e) :
        p \in {Undefined, Str(<<"a">>)}, s \in Selectors, e \in ExpectedValues }

OtherEnvelopes ==
    { Envelope("object", "ftp", p, Undefined, e) :
        p \in {Undefined, Str(<<"a">>)}, e \in {Undefined, Str(<<"u", "p">>)} }

(***************************************************************************)
(* The route handler POST.                                                 *)
(***************************************************************************)
\* NextResponse.json(body, { status: 200 }); JSON drops an undefined value
Response(status, value, hasError, error) ==
    [returned |-> TRUE, status |-> status,
     hasValue |-> value.t # "undefined", value |-> value,
     hasError |-> hasError, error |-> error]

\* the handler ran off its end: it returned undefined, no response
NoResponse ==
    [returned |-> FALSE, status |-> "", hasValue |-> FALSE,
     value |-> Undefined, hasError |-> FALSE, error |-> <<>>]

Down(error) == Response("down", Undefined, TRUE, error)

WithValue(isUp, value) ==
    Response(IF isUp THEN "up" ELSE "down", value, FALSE, <<>>)

\* the outer catch
Caught(e) ==
    Response("unknown", Undefined, TRUE,
             IF e.isError THEN e.message ELSE <<"Unknown error">>)

FetchFailed == Thrown(<<"fetch failed">>, TRUE)

\* the api comparison as it would be if a mismatch also reported a reason
ApiCompareWithReason(statusValue, expectedValue) ==
    IF Truthy(expectedValue)
    THEN IF toLowerCase(String(statusValue)) = toLowerCase(expectedValue.s)
         THEN WithValue(TRUE, statusValue)
         ELSE Response("down", statusValue, TRUE, <<"Value mismatch">>)
    ELSE WithValue(Truthy(statusValue), statusValue)

\* the comparison of the api branch, lines 46-58
ApiCompare(statusValue, expectedValue) ==
    IF Truthy(expectedValue)
    THEN WithValue(toLowerCase(String(statusValue))
                     = toLowerCase(expectedValue.s), statusValue)
    ELSE WithValue(Truthy(statusValue), statusValue)

ApiBranch(req, remote) ==
    IF remote.rejects THEN Caught(FetchFailed)
    ELSE IF ~ResponseOk(remote.status)
    THEN Down(<<"API request failed with status ", StatusText(remote.status)>>)
    ELSE IF ~includes(remote.contentType, "application/json")
    THEN Down(<<"Expected JSON response but got ">>
                \o Or(remote.contentType, Str(<<"unknown content type">>)).s)
    ELSE IF remote.json = ParseFailure
    THEN Down(<<"Failed to parse JSON response">>)
    ELSE ApiCompare(getValueByPath(remote.json, Or(req.path, Str(<<>>)).s),
                    req.expectedValue)

\* the page comparison as it would be without the trim of the text
PageCompareUntrimmed(element, expectedValue) ==
    LET elementText == Or(Str(element.el.text), Str(<<>>))
    IN  IF Truthy(expectedValue)
        THEN WithValue(toLowerCase(elementText.s)
                         = toLowerCase(expectedValue.s), elementText)
        ELSE WithValue(TRUE, elementText)

\* the comparison of the page branch, lines 91-104
PageCompare(element, expectedValue) ==
    LET elementText == Or(Str(trim(element.el.text)), Str(<<>>))
    IN  IF Truthy(expectedValue)
        THEN WithValue(toLowerCase(elementText.s)
                         = toLowerCase(expectedValue.s), elementText)
        ELSE WithValue(TRUE, elementText)

PageBranch(req, remote, domIsError) ==
    IF remote.rejects THEN Caught(FetchFailed)
    ELSE IF ~ResponseOk(remote.status) THEN Down(<<"Page request failed">>)
    ELSE LET element ==
               querySelector(remote.dom, Or(req.selector, Str(<<>>)).s,
                             domIsError)
         IN  IF element.t = "throw" THEN Caught(element)
             ELSE IF ~Truthy(element) THEN Down(<<"Element not found">>)
             ELSE PageCompare(element, req.expectedValue)

POST(req, remote, domIsError) ==
    IF req.kind = "unparseable"
    THEN Caught(Thrown(<<"Unexpected end of JSON input">>, TRUE))
    ELSE IF req.kind = "null"
    THEN Caught(Thrown(<<"Cannot destructure property 'type' of 'body'">>,
                       TRUE))
    ELSE IF req.type = "api" THEN ApiBranch(req, remote)
    ELSE IF req.type = "page" THEN PageBranch(req, remote, domIsError)
    ELSE NoResponse

(***************************************************************************)
(* State.                                                                  *)
(***************************************************************************)
VARIABLES
    pc,        \* evaluator: "idle" | "called" | "returned"
    req,       \* evaluator: the request envelope of the call
    remote,    \* evaluator: what the fetch of req's url meets
    result,    \* evaluator: what POST returned
    vendors,   \* dashboard: the vendor list (React state)
    isLoading, \* dashboard: the loading flag (React state)
    now,       \* dashboard: the clock read by Date.now() and new Date()
    checks,    \* dashboard: the checkVendorStatus calls in flight
    queue,     \* dashboard: vendors the refresh loop has still to check
    refreshes, \* dashboard: refresh runs started so far
    snapshot,  \* history: ids of the vendors of the current refresh run
    started,   \* history: ids whose fetch the current run has started
    written,   \* history: ids whose status the current run has written
    lastOp     \* history: the last dashboard operation

evars == <<pc, req, remote, result>>
uvars == <<vendors, isLoading, now, checks, queue, refreshes, snapshot,
           started, written, lastOp>>
vars  == <<evars, uvars>>

NoEnvelope == Envelope("none", "", Undefined, Undefined, Undefined)
NoRemote   == Remote(TRUE, 0, Null, NoJson, NoDom)

EInit ==
    /\ pc = "idle"
    /\ req = NoEnvelope
    /\ remote = NoRemote
    /\ result = NoResponse

\* a client posts an envelope; the url it names is in some state
Call ==
    /\ pc = "idle"
    /\ \E e \in BadEnvelopes \cup ApiEnvelopes \cup PageEnvelopes
                  \cup OtherEnvelopes :
         /\ req' = e
         /\ remote' \in (IF e.kind # "object" \/ e.type = "ftp" THEN {NoRemote}
                         ELSE IF e.type = "api" THEN ApiRemotes
                         ELSE PageRemotes)
    /\ pc' = "called"
    /\ UNCHANGED <<result, uvars>>

\* the handler runs to its return
Return ==
    /\ pc = "called"
    /\ \E domIsError \in BOOLEAN : result' = POST(req, remote, domIsError)
    /\ pc' = "returned"
    /\ UNCHANGED <<req, remote, uvars>>

ENext == Call \/ Return

(***************************************************************************)
(* The dashboard, src/app/page.tsx.                                        *)
(***************************************************************************)
Vendor(id, type, status, lastChecked) ==
    [id |-> id, type |-> type, status |-> status, lastChecked |-> lastChecked]

Ids(vs) == [i \in 1..Len(vs) |-> vs[i].id]

RECURSIVE Filter(_, _)
Filter(vs, id) ==
    IF vs = <<>> THEN <<>>
    ELSE IF Head(vs).id # id THEN <<Head(vs)>> \o Filter(Tail(vs), id)
    ELSE Filter(Tail(vs), id)

\* updateVendorStatus as it would be without the test of the id
updateEveryVendor(vs, id, status, time) ==
    [i \in 1..Len(vs) |->
        [vs[i] EXCEPT !.status = status, !.lastChecked = time]]

\* the updater of updateVendorStatus: prevVendors.map(...)
updateVendorStatus(vs, id, status, time) ==
    [i \in 1..Len(vs) |->
        IF vs[i].id = id
        THEN [vs[i] EXCEPT !.status = status, !.lastChecked = time]
        ELSE vs[i]]

\* refreshedVendors: every vendor with status unknown, checked now
RefreshedVendors(vs, time) ==
    [i \in 1..Len(vs) |->
        [vs[i] EXCEPT !.status = "unknown", !.lastChecked = time]]

\* the loop as it would be without the await: every check starts at once
LaunchAll(q) == q

\* `for (const vendor of q) { await checkVendorStatus(vendor) }`: the loop
\* starts the check of the first vendor left and is suspended until that
\* check completes
Launch(q) == IF q = <<>> THEN <<>> ELSE <<Head(q)>>

\* a call of checkVendorStatus suspended at its fetch ("fetch") or at the
\* read of the body ("body")
Check(v, origin, phase) ==
    [id |-> v.id, type |-> v.type, origin |-> origin, phase |-> phase]

ChecksOf(vs, origin) == { Check(vs[i], origin, "fetch") : i \in 1..Len(vs) }

\* checkVendorStatus when the fetch rejects or answers non-2xx
FetchStatus(type, outcome) ==
    IF outcome = "reject"
    THEN (IF type = "api" THEN "down" ELSE "unknown")
    ELSE "down"

\* checkVendorStatus after the body was read: it does not parse (api) or
\* the selector is invalid (page), or the comparison matches or not
BodyStatus(type, outcome) ==
    CASE outcome = "throws" -> (IF type = "api" THEN "down" ELSE "unknown")
      [] outcome = "match"  -> "up"
      [] OTHER              -> "down"

Op(op, id) == [op |-> op, id |-> id]

\* the state after construction: an empty list (a first visit, nothing saved
\* in localStorage), no check in flight
UInit ==
    /\ vendors = <<>>
    /\ isLoading = FALSE
    /\ now = 1
    /\ checks = {}
    /\ queue = <<>>
    /\ refreshes = 0
    /\ snapshot = <<>>
    /\ started = <<>>
    /\ written = <<>>
    /\ lastOp = Op("none", 0)

\* addVendor: with an incomplete form a toast and nothing else; with a
\* complete form the vendor is appended with the clock as its id and its
\* check runs up to its fetch
addVendor ==
    \/ UNCHANGED vars
    \/ /\ now <= MaxVendors
       /\ \E type \in {"api", "page"} :
            LET vendor == Vendor(now, type, "unknown", now)
            IN  /\ vendors' = Append(vendors, vendor)
                /\ checks' = checks \cup {Check(vendor, "add", "fetch")}
                /\ lastOp' = Op("addVendor", vendor.id)
       /\ now' = now + 1
       /\ UNCHANGED <<isLoading, queue, refreshes, snapshot, started,
                      written, evars>>

removeVendor ==
    /\ \E i \in 1..Len(vendors) :
         /\ vendors' = Filter(vendors, vendors[i].id)
         /\ lastOp' = Op("removeVendor", vendors[i].id)
    /\ UNCHANGED <<isLoading, now, checks, queue, refreshes, snapshot,
                   started, written, evars>>

\* the button is disabled while isLoading or when the list is empty
refreshAllStatuses ==
    /\ ~isLoading /\ vendors # <<>>
    /\ refreshes < MaxRefreshes
    /\ LET refreshedVendors == RefreshedVendors(vendors, now)
           first == Launch(refreshedVendors)
       IN  /\ vendors' = refreshedVendors
           /\ checks' = checks \cup ChecksOf(first, "refresh")
           /\ queue' = SubSeq(refreshedVendors, Len(first) + 1,
                              Len(refreshedVendors))
           /\ snapshot' = Ids(refreshedVendors)
           /\ started' = Ids(first)
    /\ isLoading' = TRUE
    /\ written' = <<>>
    /\ refreshes' = refreshes + 1
    /\ lastOp' = Op("refreshAllStatuses", 0)
    /\ UNCHANGED <<now, evars>>

\* checkVendorStatus returns for check c having called updateVendorStatus
\* with status; a check of the refresh loop resumes the loop, which starts
\* the next check or, at the end of the list, resets the loading flag
Complete(c, status) ==
    /\ vendors' = updateVendorStatus(vendors, c.id, status, now)
    /\ lastOp' = Op("updateVendorStatus", c.id)
    /\ IF c.origin = "refresh"
       THEN LET next == Launch(queue)
                left == (checks \ {c}) \cup ChecksOf(next, "refresh")
            IN  /\ checks' = left
                /\ queue' = SubSeq(queue, Len(next) + 1, Len(queue))
                /\ started' = started \o Ids(next)
                /\ written' = Append(written, c.id)
                /\ isLoading' =
                     IF \E d \in left : d.origin = "refresh"
                     THEN isLoading ELSE FALSE
       ELSE /\ checks' = checks \ {c}
            /\ UNCHANGED <<queue, started, written, isLoading>>
    /\ UNCHANGED <<now, refreshes, snapshot, evars>>

\* the fetch of a check settles: it rejects, answers non-2xx, or answers
\* 2xx and the check goes on to read the body
FetchSettles ==
    \E c \in checks :
        /\ c.phase = "fetch"
        /\ \/ \E outcome \in {"reject", "notok"} :
                Complete(c, FetchStatus(c.type, outcome))
           \/ /\ checks' = (checks \ {c}) \cup {[c EXCEPT !.phase = "body"]}
              /\ lastOp' = Op("response", c.id)
              /\ UNCHANGED <<vendors, isLoading, now, queue, refreshes,
                             snapshot, started, written, evars>>

\* the body of a check was read and compared
BodySettles ==
    \E c \in checks :
        /\ c.phase = "body"
        /\ \E outcome \in {"throws", "match", "nomatch"} :
             Complete(c, BodyStatus(c.type, outcome))

UNext ==
    \/ addVendor
    \/ removeVendor
    \/ refreshAllStatuses
    \/ FetchSettles
    \/ BodySettles

Init == EInit /\ UInit

\* the evaluator alone
Spec == Init /\ [][ENext]_vars

\* the dashboard alone
SpecUI == Init /\ [][UNext]_vars


(***************************************************************************)
(* Properties of the evaluator (specification Spec).                       *)
(***************************************************************************)
Returned == pc = "returned"
IsApi    == req.kind = "object" /\ req.type = "api"
IsPage   == req.kind = "object" /\ req.type = "page"
FetchOk  == ~remote.rejects /\ ResponseOk(remote.status)

\* the api branch reached its comparison: JSON content type, parseable body
ApiParsed ==
    /\ IsApi /\ FetchOk
    /\ includes(remote.contentType, "application/json")
    /\ remote.json # ParseFailure

\* an optional string of the envelope is supplied when it is a non-empty
\* string; the dashboard sends "" for a field left blank
Supplied(x) == x.t = "string" /\ x.s # <<>>

NonEmptyText(e) == \E i \in 1..Len(e) : e[i] # ""

\* the value stored in doc under the keys segs, undefined when a key is
\* missing: what a claim calls "the value found at extractionPath"
RECURSIVE StoredAt(_, _)
StoredAt(doc, segs) ==
    IF segs = <<>> THEN doc
    ELSE IF doc.t = "object" /\ HasKey(doc.f, Head(segs))
    THEN StoredAt(Field(doc.f, Head(segs)), Tail(segs))
    ELSE Undefined

ReqPath == IF Supplied(req.path) THEN req.path.s ELSE <<>>

\* C1 as claimed: in both modes, a fetch that rejects or a non-2xx response
\* gives status down with a non-empty error.
C1_TransportFailureIsDown ==
    (Returned /\ (IsApi \/ IsPage) /\ ~FetchOk)
        => /\ result.returned
           /\ result.status = "down"
           /\ result.hasError /\ NonEmptyText(result.error)

\* C2 as claimed: every invocation returns a result whose status is up, down
\* or unknown; an unparseable body and an unrecognised mode give unknown
\* with an error message.
C2_AlwaysReturnsAResult ==
    Returned
        => /\ result.returned
           /\ result.status \in {"up", "down", "unknown"}
           /\ (req.kind = "unparseable" \/ ~(IsApi \/ IsPage))
                 => (result.status = "unknown" /\ result.hasError)

\* C3 as claimed: api mode with no expectedValue is up exactly when the
\* value found at extractionPath is truthy; false, 0, "", null and a missing
\* key give down.
C3_TruthinessDecides ==
    (Returned /\ ApiParsed /\ ~Supplied(req.expectedValue) /\ ReqPath # <<>>)
        => (result.status = "up"
              <=> Truthy(StoredAt(remote.json, split(ReqPath))))

\* C4 as claimed: api mode with an expectedValue is up exactly when the
\* string form of the value stored at extractionPath, lower-cased, equals
\* the lower-cased expectedValue (false matches "false", 0 matches "0").
C4_StringFormDecides ==
    (Returned /\ ApiParsed /\ Supplied(req.expectedValue) /\ ReqPath # <<>>)
        => (result.status = "up"
              <=> toLowerCase(String(StoredAt(remote.json, split(ReqPath))))
                    = toLowerCase(req.expectedValue.s))

\* C5 as claimed: with a missing or empty extractionPath the value reported
\* is the whole parsed document.
C5_EmptyPathYieldsRoot ==
    (Returned /\ ApiParsed /\ ~Supplied(req.path))
        => (result.hasValue /\ result.value = remote.json)

\* C5 amended: with a missing or empty extractionPath the traversal looks up
\* the property named "" of the parsed body: the value reported, and used
\* for the comparison or the truthiness test, is that property's value when
\* it is truthy and an empty object otherwise, never the root as such.
C5_EmptyPathLooksUpEmptyKey ==
    (Returned /\ ApiParsed /\ ~Supplied(req.path))
        => LET extracted == IF Truthy(Get(remote.json, <<>>))
                            THEN Get(remote.json, <<>>)
                            ELSE EmptyObject
           IN  /\ result.hasValue /\ result.value = extracted
               /\ result.status = "up"
                    <=> IF Supplied(req.expectedValue)
                        THEN toLowerCase(String(extracted))
                               = toLowerCase(req.expectedValue.s)
                        ELSE TRUE

\* a document that is not an empty object was fetched with an empty path,
\* and an empty object was reported for it
C5_Witness ==
    /\ Returned /\ ApiParsed /\ req.path = Str(<<>>)
    /\ remote.json.t = "object" /\ remote.json.f # <<>>
    /\ result.value = EmptyObject

\* C6 as claimed: page mode with a missing or empty selector gives down.
C6_EmptySelectorIsDown ==
    (Returned /\ IsPage /\ FetchOk /\ ~Supplied(req.selector))
        => result.status = "down"

\* C6 amended: page mode with a missing or empty selector: the query throws
\* (the empty string is not a valid selector), the outer catch answers
\* status unknown with a non-empty error and no value.
C6_EmptySelectorIsUnknown ==
    (Returned /\ IsPage /\ FetchOk /\ ~Supplied(req.selector))
        => /\ result.returned /\ result.status = "unknown"
           /\ result.hasError /\ NonEmptyText(result.error)
           /\ ~result.hasValue

C6_Witness ==
    /\ Returned /\ IsPage /\ FetchOk /\ req.selector = Undefined
    /\ remote.dom # <<>>
    /\ result.status = "unknown"

\* the first element of the fetched document that the selector matches
FirstMatch ==
    remote.dom[CHOOSE i \in 1..Len(remote.dom) :
                  /\ Matches(remote.dom[i], req.selector.s)
                  /\ \A j \in 1..(i - 1) :
                        ~Matches(remote.dom[j], req.selector.s)]

SelectorMatched ==
    /\ IsPage /\ FetchOk /\ Supplied(req.selector)
    /\ SelectorValid(req.selector.s)
    /\ \E i \in 1..Len(remote.dom) : Matches(remote.dom[i], req.selector.s)

\* C7: page mode, the selector matches an element: with no expectedValue the
\* status is up whatever the text; with an expectedValue it is up exactly
\* when the trimmed text, lower-cased, equals the lower-cased (untrimmed)
\* expectedValue; the value returned is the trimmed text.
C7_PageComparison ==
    (Returned /\ SelectorMatched)
        => /\ result.returned /\ ~result.hasError
           /\ result.hasValue /\ result.value = Str(trim(FirstMatch.text))
           /\ result.status =
                IF ~Supplied(req.expectedValue) THEN "up"
                ELSE IF toLowerCase(trim(FirstMatch.text))
                          = toLowerCase(req.expectedValue.s)
                THEN "up" ELSE "down"

\* text " up\n" matched expectedValue "UP" after trim and lower-casing
C7_Witness ==
    /\ Returned /\ SelectorMatched
    /\ FirstMatch.text = <<" ", "u", "p", "\n">>
    /\ req.expectedValue = Str(<<"U", "P">>)
    /\ result.status = "up" /\ result.value = Str(<<"u", "p">>)

\* C8: in every result returned, value and error are never both present,
\* and a result with status up carries no error.
C8_ValueXorError ==
    (Returned /\ result.returned)
        => /\ ~(result.hasValue /\ result.hasError)
           /\ result.status = "up" => ~result.hasError
           /\ result.hasError => result.status \in {"down", "unknown"}

\* a mismatch in api mode answered down with the value and no error
C8_Witness ==
    /\ Returned /\ ApiParsed /\ Supplied(req.expectedValue)
    /\ result.status = "down" /\ result.hasValue /\ ~result.hasError


(***************************************************************************)
(* Properties of the dashboard (specification SpecUI).                     *)
(***************************************************************************)
IsPrefix(s, t) == Len(s) <= Len(t) /\ s = SubSeq(t, 1, Len(s))

\* C9: during one run of refreshAllStatuses the vendors of the snapshot are
\* checked one at a time in list order: fetches start in list order, the
\* fetch of vendor i+1 starts only after the status of vendor i was written,
\* statuses are written in list order, and the loading flag is reset only
\* after the last check has completed.
C9_SequentialRefresh ==
    /\ IsPrefix(started, snapshot)
    /\ IsPrefix(written, snapshot)
    /\ Len(written) <= Len(started)
    /\ Len(started) <= Len(written) + 1
    /\ Cardinality({c \in checks : c.origin = "refresh"}) <= 1
    /\ isLoading => written # snapshot
    /\ ~isLoading => (written = snapshot /\ queue = <<>>)

\* a run over two vendors has completed
C9_Witness ==
    /\ ~isLoading /\ refreshes > 0
    /\ Len(snapshot) >= 2 /\ written = snapshot

\* C10: a status update produced by a check completion changes only status
\* and lastChecked of the vendors with the matching id and neither adds nor
\* removes a vendor, whatever was added, removed or refreshed meanwhile.
C10_UpdateFrame ==
    [][ lastOp'.op = "updateVendorStatus"
          => /\ Len(vendors') = Len(vendors)
             /\ \A i \in 1..Len(vendors) :
                  /\ vendors'[i].id = vendors[i].id
                  /\ vendors'[i].type = vendors[i].type
                  /\ vendors[i].id # lastOp'.id => vendors'[i] = vendors[i]
             /\ \A i \in 1..Len(vendors') : vendors'[i].id # lastOp'.id
                  \/ \E j \in 1..Len(vendors) : vendors[j].id = lastOp'.id
      ]_vars

\* the check of a removed vendor completed while another vendor, whose
\* status differs from unknown, is listed
C10_Witness ==
    /\ lastOp.op = "updateVendorStatus"
    /\ \A i \in 1..Len(vendors) : vendors[i].id # lastOp.id
    /\ \E i \in 1..Len(vendors) : vendors[i].status = "up"

=============================================================================
